---- MODULE Spec2Model ----
(***************************************************************************)
(* A model of the hypercert client: the record normalizer and validator,  *)
(* the create form (CreateHypercertForm), the paginated list view          *)
(* (HypercertsListPage) and the date helper pair.                          *)
(*                                                                         *)
(* Strings are sequences of tokens; a token is a run of characters that    *)
(* the program never splits.  " " is the whitespace token.  Date strings   *)
(* are sequences of numbers: <<>> is the empty string, <<day, hh, mi>> is  *)
(* the datetime-local format YYYY-MM-DDTHH:mm (the calendar date folded    *)
(* into a day number), <<day, hh, mi, ss, ms>> is the ISO format with a Z  *)
(* suffix, and any other sequence is text that is no date.                 *)
(***************************************************************************)
EXTENDS Integers, Sequences, FiniteSets, TLC

VARIABLES
    \* ---- host ----
    tz,             \* the host's offset from UTC in minutes (local = UTC + tz)
    \* ---- date helper pair, applied to one input ----
    dtLocal, dtIso, dtBack, dtPc,
    \* ---- CreateHypercertForm ----
    initial,        \* props.initial
    disabled,       \* props.disabled
    impactClaimId, workScope, uris, startLocal, endLocal,
    description, contributors, rightsUri, locationUri,
    submitting, errors,
    creates,        \* the number of onSubmit calls that have not completed
    crashed,        \* a render threw: the component is gone
    formEv,         \* the last event the form handled and what it did
    snap,           \* the field values fillExample() replaced
    edits,          \* the number of edits so far
    \* ---- HypercertsListPage ----
    session, isReady,
    loading, items, cursor, history, query, error,
    requests,       \* listImpactClaims calls that have not completed, oldest first
    listEv,         \* the last event the list handled
    scn,            \* progress through the three-page walk
    race,           \* progress of two overlapping fetches that both succeed
    \* ---- App: the sign-in form ----
    handle,         \* the text of the handle input
    signEv          \* the last event the sign-in form handled and its signIn calls

dateVars == <<dtLocal, dtIso, dtBack, dtPc>>
fieldVars == <<impactClaimId, workScope, uris, startLocal, endLocal,
               description, contributors, rightsUri, locationUri>>
formVars == <<initial, disabled, fieldVars, submitting, errors, creates,
              crashed, formEv, snap, edits>>
listVars == <<session, isReady, loading, items, cursor, history, query, error,
              requests, listEv, scn, race>>
signVars == <<handle, signEv>>
vars == <<tz, dateVars, formVars, listVars, signVars>>

----------------------------------------------------------------------------
(* Strings *)

WS == " "

RECURSIVE TrimStart(_)
TrimStart(s) ==
    IF s # <<>> /\ Head(s) = WS THEN TrimStart(Tail(s)) ELSE s

RECURSIVE TrimEnd(_)
TrimEnd(s) ==
    IF s # <<>> /\ s[Len(s)] = WS THEN TrimEnd(SubSeq(s, 1, Len(s) - 1)) ELSE s

\* String.prototype.trim
Trim(s) == TrimEnd(TrimStart(s))

\* arr.map((u) => u.trim())
TrimAll(arr) == [i \in 1..Len(arr) |-> Trim(arr[i])]

\* arr.filter(Boolean) on an array of strings: the empty string is falsy
RECURSIVE FilterBoolean(_)
FilterBoolean(arr) ==
    IF arr = <<>> THEN <<>>
    ELSE IF Head(arr) = <<>> THEN FilterBoolean(Tail(arr))
    ELSE <<Head(arr)>> \o FilterBoolean(Tail(arr))

\* s.length, in characters
RECURSIVE StrLen(_)
StrLen(s) == IF s = <<>> THEN 0 ELSE Len(Head(s)) + StrLen(Tail(s))

\* x || undefined, and the optional fields of ImpactClaim
Undefined == [defined |-> FALSE, value |-> <<>>]
OrUndefined(s) == IF s = <<>> THEN Undefined ELSE [defined |-> TRUE, value |-> s]

----------------------------------------------------------------------------
(* Dates.  A Date is its time value: milliseconds since the epoch, or NaN. *)

\* NaN is a number no date arithmetic of the model produces
NaN == -999999999
MsPerSecond == 1000
MsPerMinute == 60000
MsPerHour == 3600000
MsPerDay == 86400000

EmptyStr == <<>>
\* what `${NaN}-${NaN}-...` and any other non-date text stand for
NotADate == <<NaN>>
\* the exception toISOString raises on an invalid Date
RangeError == <<NaN, NaN>>

\* Date.UTC(year-month-day, hours, minutes, seconds, ms)
DateUTC(day, hh, mi, ss, ms) ==
    IF NaN \in {day, hh, mi, ss, ms} THEN NaN
    ELSE day * MsPerDay + hh * MsPerHour + mi * MsPerMinute + ss * MsPerSecond + ms

\* new Date(year, month, day, hours, minutes, seconds): local time
DateLocal(day, hh, mi, ss) == DateUTC(day, hh, mi, ss, 0) - tz * MsPerMinute

\* new Date(string): a string without an offset is local time, one with Z is UTC
DateParse(str) ==
    IF Len(str) = 3 THEN DateLocal(str[1], str[2], str[3], 0)
    ELSE IF Len(str) = 5 THEN DateUTC(str[1], str[2], str[3], str[4], str[5])
    ELSE NaN

\* the local-time getters
LocalTime(t) == t + tz * MsPerMinute
GetDay(t) == IF t = NaN THEN NaN ELSE LocalTime(t) \div MsPerDay
GetHours(t) == IF t = NaN THEN NaN ELSE (LocalTime(t) % MsPerDay) \div MsPerHour
GetMinutes(t) == IF t = NaN THEN NaN ELSE (LocalTime(t) % MsPerHour) \div MsPerMinute
GetSeconds(t) == IF t = NaN THEN NaN ELSE (LocalTime(t) % MsPerMinute) \div MsPerSecond
GetMilliseconds(t) == IF t = NaN THEN NaN ELSE LocalTime(t) % MsPerSecond

\* Date.prototype.toISOString: the UTC fields, or a RangeError
ToISOString(t) ==
    IF t = NaN THEN RangeError
    ELSE <<t \div MsPerDay, (t % MsPerDay) \div MsPerHour,
           (t % MsPerHour) \div MsPerMinute, (t % MsPerMinute) \div MsPerSecond,
           t % MsPerSecond>>

localDateTimeToISO(dt) ==
    IF dt = EmptyStr THEN EmptyStr
    ELSE LET d == DateParse(dt)
         IN ToISOString(DateUTC(GetDay(d), GetHours(d), GetMinutes(d),
                                GetSeconds(d), GetMilliseconds(d)))

isoToLocalDateTime(iso) ==
    IF iso = EmptyStr THEN EmptyStr
    ELSE LET d == DateParse(iso)
         IN IF d = NaN THEN NotADate
            ELSE <<GetDay(d), GetHours(d), GetMinutes(d)>>

----------------------------------------------------------------------------
(* The record schema (zod).  An issue is a path and a message. *)

\* the scheme of an absolute URL, as a token
Schemes == {"https:"}

\* z.string().url(): an absolute URL, a scheme followed by the rest, no blanks
IsUrl(s) == Len(s) >= 2 /\ s[1] \in Schemes /\ \A i \in 1..Len(s) : s[i] # WS

\* z.string().datetime(): the ISO format with a Z suffix
IsIsoDateTime(s) == Len(s) = 5

ImpactClaimIdMin == 0
ImpactClaimIdMax == 255
WorkScopeMin == 0
UriMin == 0

MsgRequired == "Required"
MsgUriRequired == "At least one URI is required"
MsgUri == "Must be a valid URI"
MsgDate == "Must be an ISO date-time (RFC3338)"
MsgTooSmall == "String must contain at least 0 character(s)"
MsgTooBig == "String must contain at most 255 character(s)"

Issue(path, message) == [path |-> path, message |-> message]

IfIssue(bad, path, message) == IF bad THEN <<Issue(path, message)>> ELSE <<>>

\* an array index as it prints
IndexText(i) == CASE i = 0 -> "0" [] i = 1 -> "1" [] i = 2 -> "2"
                  [] i = 3 -> "3" [] OTHER -> "4"

RECURSIVE UriItemIssues(_, _)
UriItemIssues(arr, i) ==
    IF i > Len(arr) THEN <<>>
    ELSE IfIssue(~IsUrl(arr[i]), <<"uri", IndexText(i - 1)>>, MsgUri)
         \o UriItemIssues(arr, i + 1)

\* ImpactClaimSchema.safeParse(rec).error.issues, in the order of the schema
SchemaIssues(rec) ==
    IfIssue(StrLen(rec.impact_claim_id) < ImpactClaimIdMin,
            <<"impact_claim_id">>, MsgTooSmall)
    \o IfIssue(StrLen(rec.impact_claim_id) > ImpactClaimIdMax,
            <<"impact_claim_id">>, MsgTooBig)
    \o IfIssue(StrLen(rec.work_scope) < WorkScopeMin, <<"work_scope">>, MsgRequired)
    \o IfIssue(Len(rec.uri) < UriMin, <<"uri">>, MsgUriRequired)
    \o UriItemIssues(rec.uri, 1)
    \o IfIssue(~IsIsoDateTime(rec.work_start_time), <<"work_start_time">>, MsgDate)
    \o IfIssue(~IsIsoDateTime(rec.work_end_time), <<"work_end_time">>, MsgDate)

SchemaOk(rec) == SchemaIssues(rec) = <<>>

\* issue.path.join(".") || "form"
PathKey(path) ==
    IF path = <<>> THEN "form"
    ELSE IF Len(path) = 1 THEN path[1]
    ELSE path[1] \o "." \o path[2]

\* Array.from(new Set(arr)): the first occurrence of each element, in order
RECURSIVE Dedup(_)
Dedup(arr) ==
    IF arr = <<>> THEN <<>>
    ELSE LET init == Dedup(SubSeq(arr, 1, Len(arr) - 1))
             last == arr[Len(arr)]
         IN IF \E i \in 1..Len(init) : init[i] = last THEN init
            ELSE Append(init, last)

NoErrors == [k \in {} |-> <<>>]

setFieldError(prev, path, message) ==
    [k \in DOMAIN prev \cup {path} |->
        IF k = path
        THEN Dedup(Append(IF path \in DOMAIN prev THEN prev[path] ELSE <<>>, message))
        ELSE prev[k]]

RECURSIVE FoldIssues(_, _)
FoldIssues(errs, issues) ==
    IF issues = <<>> THEN errs
    ELSE FoldIssues(setFieldError(errs, PathKey(Head(issues).path), Head(issues).message),
                    Tail(issues))

\* a validation that adds to the errors on display
validateInlineOnto(rec) ==
    [errors |-> FoldIssues(errors, SchemaIssues(rec)), ok |-> SchemaOk(rec)]

\* validateInline: the errors it leaves and what it returns
validateInline(rec) ==
    [errors |-> FoldIssues(NoErrors, SchemaIssues(rec)), ok |-> SchemaOk(rec)]

----------------------------------------------------------------------------
(* CreateHypercertForm *)

MaxRows == 2
MaxCreates == 2
MaxEdits == 2

\* the host offsets and the clock readings the form is run under
FormTzOffsets == {60}
NowDays == {7}

\* what the user types
IdInputs == {<<>>, <<WS, "claim-000-demo", WS>>}
ScopeInputs == {<<>>, <<WS>>, <<WS, "Open-source climate modeling tools">>}
DescriptionInputs == {<<WS>>, <<"Released v0.0", WS>>}
RightsInputs == {<<>>, <<"https:", "//creativecommons.org/licenses/by/3.0/">>}
LocationInputs == {<<>>, <<WS, "geo:27.47,89.64">>}
UriInputs == {<<>>, <<WS, "https:", "//example.org/report/2024-q3">>, <<"example.org">>}
ContributorInputs == {<<WS>>, <<"did:plc:abcd1233efgh5678", WS>>}
DateInputs == {EmptyStr, <<1, 9, 0>>, NotADate}

\* props.initial: Partial<ImpactClaim>, every field given or every field absent
Given(v) == [defined |-> TRUE, value |-> v]
NoInitial ==
    [impact_claim_id |-> Undefined, work_scope |-> Undefined, uri |-> Undefined,
     work_start_time |-> Undefined, work_end_time |-> Undefined,
     description |-> Undefined, contributors_uri |-> Undefined,
     rights_uri |-> Undefined, location_uri |-> Undefined]
SomeInitial ==
    [impact_claim_id |-> Given(<<"claim-000-demo">>),
     work_scope |-> Given(<<"Open-source climate modeling tools">>),
     uri |-> Given(<< <<"https:", "//example.org/report/2024-q3">> >>),
     work_start_time |-> Given(<<1, 9, 0, 0, 0>>),
     work_end_time |-> Given(<<2, 9, 0, 0, 0>>),
     description |-> Undefined,
     contributors_uri |-> Given(<< <<"did:plc:abcd1233efgh5678">> >>),
     rights_uri |-> Undefined,
     location_uri |-> Given(<<"geo:27.47,89.64">>)]
Initials == {NoInitial, SomeInitial}

\* a ?? b
OrElse(opt, default) == IF opt.defined THEN opt.value ELSE default

\* the useState initializers
InitialValues(init) ==
    [impactClaimId |-> OrElse(init.impact_claim_id, <<>>),
     workScope |-> OrElse(init.work_scope, <<>>),
     uris |-> OrElse(init.uri, << <<>> >>),
     startLocal |-> isoToLocalDateTime(OrElse(init.work_start_time, EmptyStr)),
     endLocal |-> isoToLocalDateTime(OrElse(init.work_end_time, EmptyStr)),
     description |-> OrElse(init.description, <<>>),
     contributors |-> OrElse(init.contributors_uri, <<>>),
     rightsUri |-> OrElse(init.rights_uri, <<>>),
     locationUri |-> OrElse(init.location_uri, <<>>)]

\* the current field values, as one record
Fields ==
    [impactClaimId |-> impactClaimId, workScope |-> workScope, uris |-> uris,
     startLocal |-> startLocal, endLocal |-> endLocal, description |-> description,
     contributors |-> contributors, rightsUri |-> rightsUri,
     locationUri |-> locationUri]

\* the record with work_scope left as typed
RecordUntrimmed ==
    [impact_claim_id |-> Trim(impactClaimId),
     work_scope |-> workScope,
     uri |-> FilterBoolean(TrimAll(uris)),
     work_start_time |-> localDateTimeToISO(startLocal),
     work_end_time |-> localDateTimeToISO(endLocal),
     description |-> OrUndefined(Trim(description)),
     contributors_uri |-> FilterBoolean(TrimAll(contributors)),
     rights_uri |-> OrUndefined(Trim(rightsUri)),
     location_uri |-> OrUndefined(Trim(locationUri))]

\* the useMemo record
Record ==
    [impact_claim_id |-> Trim(impactClaimId),
     work_scope |-> Trim(workScope),
     uri |-> FilterBoolean(TrimAll(uris)),
     work_start_time |-> localDateTimeToISO(startLocal),
     work_end_time |-> localDateTimeToISO(endLocal),
     description |-> OrUndefined(Trim(description)),
     contributors_uri |-> FilterBoolean(TrimAll(contributors)),
     rights_uri |-> OrUndefined(Trim(rightsUri)),
     location_uri |-> OrUndefined(Trim(locationUri))]

\* computing the record throws: toISOString on an invalid Date
RenderThrows(start, end) ==
    RangeError \in {localDateTimeToISO(start), localDateTimeToISO(end)}

\* the event marker: what the last event was, what it did, and the records it
\* passed to onSubmit, one per call
\* note: the errors a submit found on display, or what a settled call left
EvWith(op, result, passed, note) ==
    [op |-> op, result |-> result, passed |-> passed, note |-> note]
Ev(op, result, passed) == EvWith(op, result, passed, <<>>)

\* the rest of the program is not involved
FormOnly == UNCHANGED <<tz, dateVars, listVars, signVars>>
NoSnap == <<>>

FormInit ==
    /\ initial \in Initials
    /\ disabled \in BOOLEAN
    /\ LET v == InitialValues(initial)
       IN /\ impactClaimId = v.impactClaimId
          /\ workScope = v.workScope
          /\ uris = v.uris
          /\ startLocal = v.startLocal
          /\ endLocal = v.endLocal
          /\ description = v.description
          /\ contributors = v.contributors
          /\ rightsUri = v.rightsUri
          /\ locationUri = v.locationUri
          /\ crashed = RenderThrows(v.startLocal, v.endLocal)
    /\ submitting = FALSE
    /\ errors = NoErrors
    /\ creates = 0
    /\ formEv = Ev("mount", "none", <<>>)
    /\ snap = NoSnap
    /\ edits = 0

\* an input's onChange; the inputs carry disabled={disabled}
Edited ==
    /\ formEv' = Ev("edit", "none", <<>>)
    /\ snap' = NoSnap
    /\ edits' = edits + 1
    /\ crashed' = RenderThrows(startLocal', endLocal')
    /\ UNCHANGED <<initial, disabled, submitting, errors, creates>>
    /\ FormOnly

CanEdit == ~crashed /\ ~disabled /\ edits < MaxEdits

SetImpactClaimId(v) ==
    /\ CanEdit
    /\ impactClaimId' = v
    /\ UNCHANGED <<workScope, uris, startLocal, endLocal, description,
                   contributors, rightsUri, locationUri>>
    /\ Edited

SetWorkScope(v) ==
    /\ CanEdit
    /\ workScope' = v
    /\ UNCHANGED <<impactClaimId, uris, startLocal, endLocal, description,
                   contributors, rightsUri, locationUri>>
    /\ Edited

SetDescription(v) ==
    /\ CanEdit
    /\ description' = v
    /\ UNCHANGED <<impactClaimId, workScope, uris, startLocal, endLocal,
                   contributors, rightsUri, locationUri>>
    /\ Edited

SetRightsUri(v) ==
    /\ CanEdit
    /\ rightsUri' = v
    /\ UNCHANGED <<impactClaimId, workScope, uris, startLocal, endLocal,
                   description, contributors, locationUri>>
    /\ Edited

SetLocationUri(v) ==
    /\ CanEdit
    /\ locationUri' = v
    /\ UNCHANGED <<impactClaimId, workScope, uris, startLocal, endLocal,
                   description, contributors, rightsUri>>
    /\ Edited

SetStartLocal(v) ==
    /\ CanEdit
    /\ startLocal' = v
    /\ UNCHANGED <<impactClaimId, workScope, uris, endLocal, description,
                   contributors, rightsUri, locationUri>>
    /\ Edited

SetEndLocal(v) ==
    /\ CanEdit
    /\ endLocal' = v
    /\ UNCHANGED <<impactClaimId, workScope, uris, startLocal, description,
                   contributors, rightsUri, locationUri>>
    /\ Edited

\* the helpers for the dynamic lists
updateArray(index, value, arr) == [arr EXCEPT ![index + 1] = value]
addRow(arr, seed) == Append(arr, seed)
removeRow(index, arr) ==
    IF Len(arr) > 0
    THEN SubSeq(arr, 1, index) \o SubSeq(arr, index + 2, Len(arr))
    ELSE arr

UpdateUri(i, v) ==
    /\ CanEdit
    /\ i + 1 \in DOMAIN uris
    /\ uris' = updateArray(i, v, uris)
    /\ UNCHANGED <<impactClaimId, workScope, startLocal, endLocal, description,
                   contributors, rightsUri, locationUri>>
    /\ Edited

AddUri ==
    /\ CanEdit
    /\ Len(uris) < MaxRows
    /\ uris' = addRow(uris, <<>>)
    /\ UNCHANGED <<impactClaimId, workScope, startLocal, endLocal, description,
                   contributors, rightsUri, locationUri>>
    /\ Edited

RemoveUri(i) ==
    /\ CanEdit
    /\ i + 1 \in DOMAIN uris
    /\ uris' = removeRow(i, uris)
    /\ UNCHANGED <<impactClaimId, workScope, startLocal, endLocal, description,
                   contributors, rightsUri, locationUri>>
    /\ Edited

UpdateContributor(i, v) ==
    /\ CanEdit
    /\ i + 1 \in DOMAIN contributors
    /\ contributors' = updateArray(i, v, contributors)
    /\ UNCHANGED <<impactClaimId, workScope, uris, startLocal, endLocal,
                   description, rightsUri, locationUri>>
    /\ Edited

AddContributor ==
    /\ CanEdit
    /\ Len(contributors) < MaxRows
    /\ contributors' = addRow(contributors, <<>>)
    /\ UNCHANGED <<impactClaimId, workScope, uris, startLocal, endLocal,
                   description, rightsUri, locationUri>>
    /\ Edited

RemoveContributor(i) ==
    /\ CanEdit
    /\ i + 1 \in DOMAIN contributors
    /\ contributors' = removeRow(i, contributors)
    /\ UNCHANGED <<impactClaimId, workScope, uris, startLocal, endLocal,
                   description, rightsUri, locationUri>>
    /\ Edited

\* the demo payload
ExampleStart(nowDay) == DateLocal(nowDay - 6, 8, -1, -1)
ExampleEnd(nowDay) == DateLocal(nowDay + 13, 16, -1, -1)
ExampleUris ==
    << <<"https:", "//github.com/example/hypercerts-climate-toolkit">>,
       <<"https:", "//example.org/report/2024-q3">> >>
ExampleContributors ==
    << <<"did:plc:abcd1233efgh5678">>,
       <<"https:", "//bsky.app/profile/alice.example.com">> >>

\* the Fill example button; it carries no disabled attribute
FillExample(nowDay) ==
    /\ ~crashed
    /\ impactClaimId' = <<"claim-000-demo">>
    /\ workScope' = <<"Open-source climate modeling tools">>
    /\ description' = <<"Released v0.0 of a reproducible climate impact toolkit;",
                        WS, "documented methods and published benchmarks.">>
    /\ uris' = ExampleUris
    /\ contributors' = ExampleContributors
    /\ rightsUri' = <<"https:", "//creativecommons.org/licenses/by/3.0/">>
    /\ locationUri' = <<"https:", "//maps.google.com/?q=Thimphu,Bhutan">>
    /\ startLocal' = isoToLocalDateTime(ToISOString(ExampleStart(nowDay)))
    /\ endLocal' = isoToLocalDateTime(ToISOString(ExampleEnd(nowDay)))
    /\ errors' = NoErrors
    /\ crashed' = RenderThrows(startLocal', endLocal')
    /\ formEv' = Ev("fill", "none", <<>>)
    /\ snap' = Fields
    /\ UNCHANGED <<initial, disabled, submitting, creates, edits>>
    /\ FormOnly

\* a reset that forgets the uri rows
ResetFormKeepsUris ==
    /\ ~crashed
    /\ impactClaimId' = OrElse(initial.impact_claim_id, <<>>)
    /\ workScope' = OrElse(initial.work_scope, <<>>)
    /\ uris' = uris
    /\ startLocal' = isoToLocalDateTime(OrElse(initial.work_start_time, EmptyStr))
    /\ endLocal' = isoToLocalDateTime(OrElse(initial.work_end_time, EmptyStr))
    /\ description' = OrElse(initial.description, <<>>)
    /\ contributors' = OrElse(initial.contributors_uri, <<>>)
    /\ rightsUri' = OrElse(initial.rights_uri, <<>>)
    /\ locationUri' = OrElse(initial.location_uri, <<>>)
    /\ errors' = NoErrors
    /\ crashed' = RenderThrows(startLocal', endLocal')
    /\ IF formEv.op = "fill"
       THEN formEv' = Ev("reset", "afterFill", <<>>) /\ snap' = snap
       ELSE formEv' = Ev("reset", "plain", <<>>) /\ snap' = NoSnap
    /\ UNCHANGED <<initial, disabled, submitting, creates, edits>>
    /\ FormOnly

\* the Reset button; it carries no disabled attribute
\* a reset that leaves the errors of the last submit on display
ResetFormKeepsErrors ==
    /\ ~crashed
    /\ impactClaimId' = OrElse(initial.impact_claim_id, <<>>)
    /\ workScope' = OrElse(initial.work_scope, <<>>)
    /\ uris' = OrElse(initial.uri, << <<>> >>)
    /\ startLocal' = isoToLocalDateTime(OrElse(initial.work_start_time, EmptyStr))
    /\ endLocal' = isoToLocalDateTime(OrElse(initial.work_end_time, EmptyStr))
    /\ description' = OrElse(initial.description, <<>>)
    /\ contributors' = OrElse(initial.contributors_uri, <<>>)
    /\ rightsUri' = OrElse(initial.rights_uri, <<>>)
    /\ locationUri' = OrElse(initial.location_uri, <<>>)
    /\ crashed' = RenderThrows(startLocal', endLocal')
    /\ IF formEv.op = "fill"
       THEN formEv' = Ev("reset", "afterFill", <<>>) /\ snap' = snap
       ELSE formEv' = Ev("reset", "plain", <<>>) /\ snap' = NoSnap
    /\ UNCHANGED <<initial, disabled, submitting, creates, edits, errors>>
    /\ FormOnly
ResetForm ==
    /\ ~crashed
    /\ impactClaimId' = OrElse(initial.impact_claim_id, <<>>)
    /\ workScope' = OrElse(initial.work_scope, <<>>)
    /\ uris' = OrElse(initial.uri, << <<>> >>)
    /\ startLocal' = isoToLocalDateTime(OrElse(initial.work_start_time, EmptyStr))
    /\ endLocal' = isoToLocalDateTime(OrElse(initial.work_end_time, EmptyStr))
    /\ description' = OrElse(initial.description, <<>>)
    /\ contributors' = OrElse(initial.contributors_uri, <<>>)
    /\ rightsUri' = OrElse(initial.rights_uri, <<>>)
    /\ locationUri' = OrElse(initial.location_uri, <<>>)
    /\ errors' = NoErrors
    /\ crashed' = RenderThrows(startLocal', endLocal')
    /\ IF formEv.op = "fill"
       THEN formEv' = Ev("reset", "afterFill", <<>>) /\ snap' = snap
       ELSE formEv' = Ev("reset", "plain", <<>>) /\ snap' = NoSnap
    /\ UNCHANGED <<initial, disabled, submitting, creates, edits>>
    /\ FormOnly

\* a guard that looks at disabled alone
SubmitIgnoredIfDisabled == disabled

\* if (disabled || submitting) return;
SubmitIgnored == disabled \/ submitting

\* await onSubmit?.(record): the calls made, each with its argument
onSubmitCalls(rec) == <<rec>>

\* handleSubmit, up to the await: the form's submit event or the Submit button
HandleSubmit ==
    /\ ~crashed
    /\ creates < MaxCreates
    /\ LET res == validateInline(Record)
           passed == IF ~SubmitIgnored /\ res.ok THEN onSubmitCalls(Record) ELSE <<>>
       IN /\ errors' = IF SubmitIgnored THEN errors ELSE res.errors
          /\ submitting' = IF ~SubmitIgnored /\ res.ok THEN TRUE ELSE submitting
          /\ creates' = creates + Len(passed)
          /\ formEv' = EvWith("submit",
                              IF SubmitIgnored THEN "ignored"
                              ELSE IF res.ok THEN "called" ELSE "invalid",
                              passed, errors)
    /\ snap' = NoSnap
    /\ UNCHANGED <<initial, disabled, fieldVars, crashed, edits>>
    /\ FormOnly

ToastSuccess == "Created Impact Claim!"

\* App's handleCreate, the form's onSubmit, once createImpactClaim has settled:
\* how its own promise settles and the notifications it emits
handleCreate(result) ==
    [outcome |-> result,
     toasts |-> IF result = "resolved" THEN <<ToastSuccess>> ELSE <<>>]

\* submitting cleared after the await, outside any finally
SettleOnSuccess(result) ==
    /\ ~crashed
    /\ creates > 0
    /\ creates' = creates - 1
    /\ submitting' = IF result = "resolved" THEN FALSE ELSE submitting
    /\ formEv' = EvWith("settle", handleCreate(result).outcome, <<>>,
                        [create |-> result, toasts |-> handleCreate(result).toasts])
    /\ snap' = NoSnap
    /\ UNCHANGED <<initial, disabled, fieldVars, errors, crashed, edits>>
    /\ FormOnly

\* handleSubmit after the await: the finally block
Settle(result) ==
    /\ ~crashed
    /\ creates > 0
    /\ creates' = creates - 1
    /\ submitting' = FALSE
    /\ formEv' = EvWith("settle", handleCreate(result).outcome, <<>>,
                        [create |-> result, toasts |-> handleCreate(result).toasts])
    /\ snap' = NoSnap
    /\ UNCHANGED <<initial, disabled, fieldVars, errors, crashed, edits>>
    /\ FormOnly

\* onSubmit's promise is fulfilled
CreateResolved == Settle("resolved")

\* onSubmit's promise is rejected
CreateRejected == Settle("rejected")

FormNext ==
    \/ \E v \in IdInputs : SetImpactClaimId(v)
    \/ \E v \in ScopeInputs : SetWorkScope(v)
    \/ \E v \in DescriptionInputs : SetDescription(v)
    \/ \E v \in RightsInputs : SetRightsUri(v)
    \/ \E v \in LocationInputs : SetLocationUri(v)
    \/ \E v \in DateInputs : SetStartLocal(v)
    \/ \E v \in DateInputs : SetEndLocal(v)
    \/ \E i \in 0..(MaxRows - 1), v \in UriInputs : UpdateUri(i, v)
    \/ AddUri
    \/ \E i \in 0..(MaxRows - 1) : RemoveUri(i)
    \/ \E i \in 0..(MaxRows - 1), v \in ContributorInputs : UpdateContributor(i, v)
    \/ AddContributor
    \/ \E i \in 0..(MaxRows - 1) : RemoveContributor(i)
    \/ \E d \in NowDays : FillExample(d)
    \/ ResetForm
    \/ HandleSubmit
    \/ CreateResolved
    \/ CreateRejected

----------------------------------------------------------------------------
(* HypercertsListPage *)

MaxRequests == 2
MaxHistory == 4

\* null: no session, no cursor, no error.  No cursor or message is this text.
Null == "null"
Sessions == {"did:alice", "did:bob"}

\* The remote store: three pages per repository, chained by the cursors
\* null -> "c1" -> "c2" -> null.
PageNumber(c) == CASE c = Null -> 1 [] c = "c1" -> 2 [] c = "c2" -> 3
PageItems(sess, c) ==
    << [owner |-> sess, page |-> PageNumber(c), impact_claim_id |-> "a"],
       [owner |-> sess, page |-> PageNumber(c), impact_claim_id |-> "b"] >>
PageCursor(c) == CASE c = Null -> "c1" [] c = "c1" -> "c2" [] c = "c2" -> Null
\* a response field that is not there
Missing == "undefined"
\* on its last page one repository answers with cursor null, the other leaves
\* the cursor out
ResponseCursor(sess, c) ==
    IF PageCursor(c) = Null /\ sess = "did:bob" THEN Missing ELSE PageCursor(c)
listImpactClaims(sess, c) ==
    [items |-> PageItems(sess, c), cursor |-> ResponseCursor(sess, c)]

\* v ?? d that lets a missing value through
KeepNullish(v, d) == v
\* v ?? d
NullishCoalesce(v, d) == IF v \in {Null, Missing} THEN d ELSE v

ErrorMessage == "Failed to load hypercerts."

LEv(op, origin) == [op |-> op, origin |-> origin]

\* the rest of the program is not involved
ListOnly == UNCHANGED <<tz, dateVars, formVars, signVars>>

Request(c, push, origin) ==
    [cursor |-> c, push |-> push, session |-> session', origin |-> origin]

RemoveAt(seq, i) == SubSeq(seq, 1, i - 1) \o SubSeq(seq, i + 1, Len(seq))

\* history entries that are there or will be if every pending fetch succeeds
Committed == Len(history) + Cardinality({i \in DOMAIN requests : requests[i].push})

Cursors == {Null, "c1", "c2"}

\* a fetchPage without the session check of its first line
fetchPageUnguarded(c, push, origin) ==
    /\ loading' = TRUE
    /\ error' = Null
    /\ requests' = Append(requests, Request(c, push, origin))
\* fetchPage up to the await, with the session of the render it belongs to
fetchPage(c, push, origin) ==
    IF session' = Null
    THEN UNCHANGED <<loading, error, requests>>
    ELSE /\ loading' = TRUE
         /\ error' = Null
         /\ requests' = Append(requests, Request(c, push, origin))

CanFetch(push) ==
    /\ Len(requests) < MaxRequests
    /\ push => Committed < MaxHistory

\* fetchPage called by a render that has no session
FetchPageNoSession(c, push) ==
    /\ ListOnly
    /\ session = Null
    /\ UNCHANGED <<session, isReady, items, cursor, history, query, scn, race>>
    /\ CanFetch(push)
    /\ fetchPage(c, push, "direct")
    /\ listEv' = LEv("fetch", "direct")
\* the session provider changes isReady or session; the effect runs again
AuthChanged(r, s) ==
    /\ ListOnly
    /\ <<r, s>> # <<isReady, session>>
    /\ isReady => r
    /\ isReady' = r
    /\ session' = s
    /\ IF r /\ s # Null
       THEN CanFetch(TRUE) /\ fetchPage(Null, TRUE, "effect")
       ELSE UNCHANGED <<loading, error, requests>>
    /\ listEv' = LEv("auth", "effect")
    /\ scn' = 0
    /\ race' = 0
    /\ UNCHANGED <<items, cursor, history, query>>

\* the controls are rendered once the session is ready and present
ControlsShown == isReady /\ session # Null
\* a Next button that stays enabled on the last page
NextDisabledWhileLoading == loading
NextDisabled == loading \/ cursor = Null
BackDisabled == loading \/ Len(history) <= 1

\* a click on the Next button: handleNext
HandleNext ==
    /\ ListOnly
    /\ UNCHANGED <<session, isReady, items, cursor, history, query>>
    /\ IF ControlsShown /\ ~NextDisabled
       THEN /\ CanFetch(TRUE)
            /\ fetchPage(cursor, TRUE, "next")
            /\ listEv' = LEv("next", "next")
       ELSE /\ UNCHANGED <<loading, error, requests>>
            /\ listEv' = LEv("next", "ignored")
    /\ scn' = IF scn \in 1..3 /\ requests = <<>> THEN scn + 1 ELSE 0
    /\ race' = IF requests' = requests THEN race ELSE 0

\* a back() that fetches the cursor it has just popped
BackCursorPopped(nextHistory) == history[Len(history)]
\* the cursor handleBack fetches: the top of the reduced stack
BackCursor(nextHistory) == nextHistory[Len(nextHistory)]

\* a click on the Back button: handleBack
HandleBack ==
    /\ ListOnly
    /\ UNCHANGED <<session, isReady, items, cursor, query>>
    /\ IF ControlsShown /\ ~BackDisabled /\ ~(Len(history) <= 1)
       THEN LET nextHistory == SubSeq(history, 1, Len(history) - 1)
            IN /\ CanFetch(FALSE)
               /\ fetchPage(BackCursor(nextHistory), FALSE, "back")
               /\ history' = nextHistory
               /\ listEv' = LEv("back", "back")
       ELSE /\ UNCHANGED <<loading, error, requests, history>>
            /\ listEv' = LEv("back", "ignored")
    /\ scn' = IF scn \in 4..6 /\ requests = <<>> THEN scn + 1 ELSE 0
    /\ race' = IF requests' = requests THEN race ELSE 0

\* what can be typed into the search box
QueryChars == {"A", "a", "b", " "}
QueryInputs ==
    {<<>>} \cup {<<x>> : x \in QueryChars} \cup (QueryChars \X QueryChars)

\* the search box: setQuery(e.target.value)
SetQuery(v) ==
    /\ ListOnly
    /\ ControlsShown
    /\ v # query
    /\ query' = v
    /\ listEv' = LEv("query", "input")
    /\ UNCHANGED <<session, isReady, loading, items, cursor, history, error,
                   requests, scn, race>>

\* a toLowerCase that leaves capitals alone
KeepCase(s) == s
LowerChar(ch) == CASE ch = "A" -> "a" [] ch = "B" -> "b" [] OTHER -> ch
ToLowerCase(s) == [i \in 1..Len(s) |-> LowerChar(s[i])]

PageText(n) == CASE n = 1 -> "1" [] n = 2 -> "2" [] n = 3 -> "3"
\* JSON.stringify(it), one token per character or atom
JSONStringify(it) ==
    <<"{", it.owner, ",", PageText(it.page), ",", it.impact_claim_id, "}">>

\* hay.includes(q)
Includes(hay, q) ==
    \E i \in 0..(Len(hay) - Len(q)) : SubSeq(hay, i + 1, i + Len(q)) = q

Keeps(q, it) == Includes(ToLowerCase(JSONStringify(it)), q)

RECURSIVE Filter(_, _)
Filter(arr, q) ==
    IF arr = <<>> THEN <<>>
    ELSE (IF Keeps(q, Head(arr)) THEN <<Head(arr)>> ELSE <<>>)
         \o Filter(Tail(arr), q)

\* the filtered view of the page on display
filtered ==
    LET q == ToLowerCase(Trim(query))
    IN IF q = <<>> THEN items ELSE Filter(items, q)
\* the first load of a fresh page: nothing shown yet, one request out
FirstLoad(i) ==
    /\ ControlsShown /\ history = <<>> /\ Len(requests) = 1
    /\ requests[i].cursor = Null /\ requests[i].push
    /\ requests[i].session = session

\* two fetches overlap and both succeed: 1 the newer completed first, 2 the
\* older completed first, 3 and 4 the other one has completed too
Raced(i) ==
    IF Len(requests) = 2 THEN (IF i = 2 THEN 1 ELSE 2)
    ELSE IF Len(requests) = 1 /\ race \in {1, 2} THEN race + 2
    ELSE 0

\* a completion that drops the response of a session no longer current
FetchSucceededIfCurrent(i) ==
    /\ ListOnly
    /\ i \in DOMAIN requests
    /\ LET req == requests[i]
           res == listImpactClaims(req.session, req.cursor)
       IN /\ IF req.session = session
             THEN /\ items' = res.items
                  /\ cursor' = NullishCoalesce(res.cursor, Null)
                  /\ history' = IF req.push THEN Append(history, req.cursor)
                                ELSE history
             ELSE UNCHANGED <<items, cursor, history>>
          /\ listEv' = LEv("ok", req.origin)
    /\ loading' = FALSE
    /\ requests' = RemoveAt(requests, i)
    /\ scn' = 0
    /\ race' = Raced(i)
    /\ UNCHANGED <<session, isReady, query, error>>

\* fetchPage after the await, the call fulfilled
FetchSucceeded(i) ==
    /\ ListOnly
    /\ i \in DOMAIN requests
    /\ LET req == requests[i]
           res == listImpactClaims(req.session, req.cursor)
       IN /\ items' = res.items
          /\ cursor' = NullishCoalesce(res.cursor, Null)
          /\ history' = IF req.push THEN Append(history, req.cursor) ELSE history
          /\ listEv' = LEv("ok", req.origin)
    /\ loading' = FALSE
    /\ requests' = RemoveAt(requests, i)
    /\ scn' = IF scn = 0 /\ FirstLoad(i) THEN 1
              ELSE IF scn > 0 /\ Len(requests) = 1 THEN scn ELSE 0
    /\ race' = Raced(i)
    /\ UNCHANGED <<session, isReady, query, error>>

\* a failure that drops the page on display
FetchFailedClearsItems(i) ==
    /\ ListOnly
    /\ i \in DOMAIN requests
    /\ error' = ErrorMessage
    /\ items' = <<>>
    /\ loading' = FALSE
    /\ requests' = RemoveAt(requests, i)
    /\ listEv' = LEv("fail", requests[i].origin)
    /\ scn' = 0
    /\ race' = 0
    /\ UNCHANGED <<session, isReady, cursor, history, query>>

\* fetchPage after the await, the call rejected
FetchFailed(i) ==
    /\ ListOnly
    /\ i \in DOMAIN requests
    /\ error' = ErrorMessage
    /\ loading' = FALSE
    /\ requests' = RemoveAt(requests, i)
    /\ listEv' = LEv("fail", requests[i].origin)
    /\ scn' = 0
    /\ race' = 0
    /\ UNCHANGED <<session, isReady, items, cursor, history, query>>

ListInit ==
    /\ isReady \in BOOLEAN
    /\ session \in Sessions \cup {Null}
    /\ items = <<>>
    /\ cursor = Null
    /\ history = <<>>
    /\ query = <<>>
    /\ error = Null
    /\ loading = (isReady /\ session # Null)
    /\ requests = IF isReady /\ session # Null
                  THEN <<[cursor |-> Null, push |-> TRUE, session |-> session,
                          origin |-> "effect"]>>
                  ELSE <<>>
    /\ listEv = LEv("mount", "effect")
    /\ scn = 0
    /\ race = 0

ListNext ==
    \/ \E r \in BOOLEAN, s \in Sessions \cup {Null} : AuthChanged(r, s)
    \/ HandleNext
    \/ HandleBack
    \/ \E c \in Cursors, push \in BOOLEAN : FetchPageNoSession(c, push)
    \/ \E i \in 1..MaxRequests : FetchSucceeded(i)
    \/ \E i \in 1..MaxRequests : FetchFailed(i)

----------------------------------------------------------------------------
(* The search box over a loaded page.  setQuery writes query alone, and of
   the page's code only filtered reads it, so the box is run on its own over
   every page the list can have on display. *)

\* the history next() has built on the way to the page asked for with c
PathTo(c) ==
    CASE c = Null -> <<Null>> [] c = "c1" -> <<Null, "c1">>
      [] c = "c2" -> <<Null, "c1", "c2">>

SearchInit ==
    /\ isReady = TRUE
    /\ session \in Sessions
    /\ \E c \in Cursors :
          /\ items = listImpactClaims(session, c).items
          /\ cursor = NullishCoalesce(listImpactClaims(session, c).cursor, Null)
          /\ history = PathTo(c)
          /\ listEv = LEv("ok", IF c = Null THEN "effect" ELSE "next")
    /\ query = <<>>
    /\ error = Null
    /\ loading = FALSE
    /\ requests = <<>>
    /\ scn = 0
    /\ race = 0

SearchNext == \E v \in QueryInputs : SetQuery(v)

----------------------------------------------------------------------------
(* The date helper pair applied to one input *)

TzOffsets == {-300, 0, 60, 330}
LocalInputs ==
    {<<d, h, m>> : d \in {1, 2}, h \in {0, 9, 23}, m \in {0, 30, 59}}

DateInit ==
    /\ dtLocal \in LocalInputs
    /\ dtIso = EmptyStr
    /\ dtBack = EmptyStr
    /\ dtPc = "input"

ToISO ==
    /\ dtPc = "input"
    /\ dtIso' = localDateTimeToISO(dtLocal)
    /\ dtPc' = "iso"
    /\ UNCHANGED <<tz, formVars, listVars, signVars>>
    /\ UNCHANGED <<dtLocal, dtBack>>

ToLocal ==
    /\ dtPc = "iso"
    /\ dtBack' = isoToLocalDateTime(dtIso)
    /\ dtPc' = "local"
    /\ UNCHANGED <<tz, formVars, listVars, signVars>>
    /\ UNCHANGED <<dtLocal, dtIso>>

DateNext == ToISO \/ ToLocal

----------------------------------------------------------------------------
(* App: the sign-in form *)

MaxHandle == 3

HandleChars == {"@", " ", "a"}
\* what can be typed into the handle input
HandleInputs == UNION {[1..n -> HandleChars] : n \in 0..MaxHandle}

\* a replace that removes every leading "@"
RECURSIVE StripEveryAt(_)
StripEveryAt(s) == IF s # <<>> /\ s[1] = "@" THEN StripEveryAt(Tail(s)) ELSE s
\* s.replace(/^@/, "")
StripAt(s) == IF s # <<>> /\ s[1] = "@" THEN Tail(s) ELSE s

normalized == StripAt(Trim(handle))
canLogin == Len(normalized) > 0 /\ isReady

SEv(op, calls) == [op |-> op, calls |-> calls]

\* the form and the pages are not involved
SignInOnly ==
    UNCHANGED <<tz, dateVars, formVars, session, loading, items, cursor,
                history, query, error, requests, listEv, scn, race>>

SignInInit ==
    /\ handle = <<>>
    /\ signEv = SEv("mount", <<>>)

\* the provider becomes ready, or is preparing the session again
ReadyChanged(r) ==
    /\ SignInOnly
    /\ session = Null
    /\ r # isReady
    /\ isReady' = r
    /\ signEv' = SEv("ready", <<>>)
    /\ UNCHANGED handle

\* the handle input, on display once the provider is ready with no session
SetHandle(v) ==
    /\ SignInOnly
    /\ isReady /\ session = Null
    /\ v # handle
    /\ handle' = v
    /\ signEv' = SEv("edit", <<>>)
    /\ UNCHANGED isReady

\* onSubmit: the form submitted, or the callback called by a render
OnSubmit ==
    /\ SignInOnly
    /\ session = Null
    /\ signEv' = SEv("submit", IF canLogin THEN <<normalized>> ELSE <<>>)
    /\ UNCHANGED <<handle, isReady>>

SignInNext ==
    \/ \E r \in BOOLEAN : ReadyChanged(r)
    \/ \E v \in HandleInputs : SetHandle(v)
    \/ OnSubmit

----------------------------------------------------------------------------
(* Specifications: each part of the program on its own, the rest at rest *)

FormAtRest == initial = NoInitial /\ disabled = FALSE /\ FormInit
ListAtRest == isReady = FALSE /\ session = Null /\ ListInit
DateAtRest == dtLocal = <<1, 0, 0>> /\ DateInit
SignInAtRest == SignInInit

FormSpecInit ==
    tz \in FormTzOffsets /\ FormInit /\ ListAtRest /\ DateAtRest /\ SignInAtRest
ListSpecInit == tz = 0 /\ FormAtRest /\ ListInit /\ DateAtRest /\ SignInAtRest
DateSpecInit ==
    tz \in TzOffsets /\ FormAtRest /\ ListAtRest /\ DateInit /\ SignInAtRest
SearchSpecInit ==
    tz = 0 /\ FormAtRest /\ SearchInit /\ DateAtRest /\ SignInAtRest
SignInSpecInit ==
    /\ tz = 0 /\ FormAtRest /\ DateAtRest
    /\ session = Null /\ ListInit
    /\ SignInInit

FormSpec == FormSpecInit /\ [][FormNext]_vars
ListSpec == ListSpecInit /\ [][ListNext]_vars
DateSpec == DateSpecInit /\ [][DateNext]_vars
SearchSpec == SearchSpecInit /\ [][SearchNext]_vars
SignInSpec == SignInSpecInit /\ [][SignInNext]_vars

----------------------------------------------------------------------------
(* Properties *)

IsTrimmed(str) == str = <<>> \/ (str[1] # WS /\ str[Len(str)] # WS)
OptionTrimmed(opt) == opt.defined => (opt.value # <<>> /\ IsTrimmed(opt.value))
AllTrimmed(arr) == \A i \in DOMAIN arr : arr[i] # <<>> /\ IsTrimmed(arr[i])

\* a submit() that ran: the form was enabled and not submitting
Submitted == formEv.op = "submit" /\ formEv.result # "ignored"

\* C1: for every field state whose normalized record satisfies the schema, a
\* submit() with the form enabled and not submitting calls onSubmit exactly
\* once, with a record whose string fields are all trimmed and whose uri and
\* contributors_uri sequences hold no empty string.
C1_ValidSubmitCallsOnceTrimmed ==
    (Submitted /\ SchemaOk(Record)) =>
        /\ Len(formEv.passed) = 1
        /\ LET rec == formEv.passed[1]
           IN /\ IsTrimmed(rec.impact_claim_id)
              /\ IsTrimmed(rec.work_scope)
              /\ AllTrimmed(rec.uri)
              /\ AllTrimmed(rec.contributors_uri)
              /\ OptionTrimmed(rec.description)
              /\ OptionTrimmed(rec.rights_uri)
              /\ OptionTrimmed(rec.location_uri)

\* a valid submit of padded fields and a blank contributor row
C1_Witness ==
    /\ Submitted /\ formEv.result = "called"
    /\ impactClaimId # Trim(impactClaimId)
    /\ \E i \in DOMAIN contributors : Trim(contributors[i]) = <<>>

\* C2: for every form state whose work_scope is empty after trimming, submit()
\* does not call onSubmit and leaves an entry under "work_scope" in errors.
C2_EmptyWorkScopeRejected ==
    (Submitted /\ Trim(workScope) = <<>>) =>
        (formEv.passed = <<>> /\ "work_scope" \in DOMAIN errors)

\* C3: for every form state whose uri sequence is empty once blank entries are
\* filtered out, submit() does not call onSubmit and leaves an entry under
\* "uri" in errors.
C3_EmptyUriRejected ==
    (Submitted /\ FilterBoolean(TrimAll(uris)) = <<>>) =>
        (formEv.passed = <<>> /\ "uri" \in DOMAIN errors)

Unparseable(dt) == dt = EmptyStr \/ DateParse(dt) = NaN

\* C4: for every form state whose start or end input is empty or no date,
\* submit() does not call onSubmit and leaves an entry under "work_start_time"
\* or "work_end_time"; the failure is a validation error, never an exception.
C4_BadDateRejected ==
    /\ (Unparseable(startLocal) \/ Unparseable(endLocal)) => ~crashed
    /\ (Submitted /\ Unparseable(startLocal)) =>
           (formEv.passed = <<>> /\ "work_start_time" \in DOMAIN errors)
    /\ (Submitted /\ Unparseable(endLocal)) =>
           (formEv.passed = <<>> /\ "work_end_time" \in DOMAIN errors)

\* C5: for every local date-time with zero seconds and milliseconds and every
\* host offset, isoToLocalDateTime(localDateTimeToISO(s)) is s.
C5_RoundTrip == dtPc = "local" => dtBack = dtLocal

FilledThenReset == formEv.op = "reset" /\ formEv.result = "afterFill"

\* C6 as stated: fillExample() followed by resetForm() leaves every field at
\* the value it had immediately before fillExample().
C6_FillResetRestoresPrior == FilledThenReset => Fields = snap

\* C6 as amended: fillExample() followed by resetForm() leaves every field at
\* its initial value: the one props.initial gives, or the empty default (one
\* blank row for uri).
C6_FillResetRestoresInitial == FilledThenReset => Fields = InitialValues(initial)

\* fill and reset of a form that had been edited away from its initial values
C6_Witness ==
    FilledThenReset /\ snap # InitialValues(initial) /\ Fields = InitialValues(initial)

\* C7: after the initial load, next() three times and back() twice, each run
\* to completion, leave items at page 1's items, and one more back() issues
\* no fetch and changes no state.
C7_ThreePageWalk ==
    [][/\ (scn' = 6 /\ requests' = <<>>) => items' = PageItems(session', Null)
       /\ (scn = 6 /\ scn' = 7) =>
              UNCHANGED <<loading, items, cursor, history, error, requests>>]_vars

\* the walk done: three next(), two back() and the one more back()
C7_Witness == scn = 7 /\ listEv = LEv("back", "ignored")

\* C8: a rejected listing call leaves items as they were and sets a non-empty
\* error message, for the initial fetch, next() and back() alike.
C8_FailureKeepsItems ==
    [][listEv'.op = "fail" => (items' = items /\ error' \notin {Null, ""})]_vars

\* a back() that failed with a page on display
C8_Witness ==
    listEv = LEv("fail", "back") /\ items # <<>> /\ error = ErrorMessage

\* C9: submit() is a no-op while submitting is true or the form is disabled;
\* a second submit() while the first call is pending never calls onSubmit
\* again.
C9_SubmitGuard ==
    /\ [](creates <= 1)
    /\ [][(formEv'.op = "submit" /\ (disabled \/ submitting)) =>
              /\ formEv'.passed = <<>>
              /\ UNCHANGED <<errors, submitting, creates>>]_vars

\* a second submit() with the first call still pending
C9_Witness ==
    formEv.op = "submit" /\ formEv.result = "ignored" /\ submitting /\ creates = 1

\* C10: after a submit() that passed validation, submitting is true while the
\* onSubmit call is pending and false once it has completed, resolved or
\* rejected.
C10_SubmittingWhilePending == submitting <=> creates > 0

\* the call rejected and submitting cleared
C10_Witness == formEv.op = "settle" /\ formEv.result = "rejected" /\ ~submitting

\* C11: back() with a history of one entry or fewer changes nothing; otherwise
\* it removes exactly the top history entry and issues exactly one fetch, for
\* the cursor now on top of the reduced stack, and that fetch never pushes
\* onto history, neither when issued nor when it completes.
C11_BackPopsAndRefetches ==
    [][/\ (listEv'.op = "back" /\ Len(history) <= 1) =>
              UNCHANGED <<loading, items, cursor, history, error, requests>>
       /\ (listEv' = LEv("back", "back")) =>
              /\ Len(history) > 1
              /\ history' = SubSeq(history, 1, Len(history) - 1)
              /\ requests' = Append(requests,
                     [cursor |-> history'[Len(history')], push |-> FALSE,
                      session |-> session, origin |-> "back"])
              /\ UNCHANGED <<items, cursor>>
       /\ (listEv'.op = "ok" /\ listEv'.origin = "back") => history' = history]_vars

\* a back() from page 3: "c2" popped, page 2 requested again with "c1"
C11_Witness ==
    /\ listEv = LEv("back", "back")
    /\ history = <<Null, "c1">>
    /\ requests = <<[cursor |-> "c1", push |-> FALSE, session |-> session,
                     origin |-> "back"]>>

\* C12: next() issues fetchPage(cursor, true), and issues no request and
\* changes no state when the forward cursor is null or a listing request is
\* still in flight.
C12_NextFetchesOrIgnores ==
    [][listEv'.op = "next" =>
          IF cursor = Null \/ requests # <<>>
          THEN UNCHANGED <<loading, items, cursor, history, error, requests>>
          ELSE ControlsShown =>
                  /\ requests' = Append(requests,
                         [cursor |-> cursor, push |-> TRUE,
                          session |-> session, origin |-> "next"])
                  /\ UNCHANGED <<items, cursor, history>>]_vars

\* an item is a match of q when q occurs in its serialized form, letter case
\* aside
SameLetter(a, b) == LowerChar(a) = LowerChar(b)
OccursIn(q, hay) ==
    \E i \in 0..(Len(hay) - Len(q)) :
        \A k \in 1..Len(q) : SameLetter(hay[i + k], q[k])
\* the positions of the page whose item matches q, in page order
MatchesOf(q) == {i \in DOMAIN items : OccursIn(q, JSONStringify(items[i]))}
\* view is the page restricted to the positions in keep, order kept
IsRestriction(view, keep) ==
    /\ Len(view) = Cardinality(keep)
    /\ \A i \in keep :
          view[Cardinality({j \in keep : j <= i})] = items[i]

\* C13 as stated: the filtered view is the items of the page whose serialized
\* form contains the query as typed, letter case aside, in page order; an
\* empty or whitespace-only query gives the whole page.
C13_FilterByQuery ==
    IF Trim(query) = <<>> THEN filtered = items
    ELSE IsRestriction(filtered, MatchesOf(query))

\* C13 as amended: the filtered view is the items of the page whose
\* serialized form contains the query with its leading and trailing
\* whitespace removed, letter case aside, in page order; an empty or
\* whitespace-only query gives the whole page; typing a query changes neither
\* items, cursor nor history.
C13_FilterByTrimmedQuery ==
    /\ [](IF Trim(query) = <<>> THEN filtered = items
          ELSE IsRestriction(filtered, MatchesOf(Trim(query))))
    /\ [][query' # query => UNCHANGED <<items, cursor, history>>]_vars

\* "A " typed over a loaded page: item "a" is shown, item "b" is not, though
\* no serialized item holds an "a" followed by a blank
C13_Witness ==
    /\ query = <<"A", " ">>
    /\ Len(items) = 2
    /\ filtered = <<items[1]>>
    /\ MatchesOf(query) = {}

\* C14: from any reachable form state, reset() sets every field to the value
\* it had at construction (the one props.initial gives, or the empty default),
\* empties errors and leaves submitting as it was.
C14_ResetRestoresInitial ==
    [][formEv'.op = "reset" =>
          /\ impactClaimId' = InitialValues(initial).impactClaimId
          /\ workScope' = InitialValues(initial).workScope
          /\ uris' = InitialValues(initial).uris
          /\ startLocal' = InitialValues(initial).startLocal
          /\ endLocal' = InitialValues(initial).endLocal
          /\ description' = InitialValues(initial).description
          /\ contributors' = InitialValues(initial).contributors
          /\ rightsUri' = InitialValues(initial).rightsUri
          /\ locationUri' = InitialValues(initial).locationUri
          /\ DOMAIN errors' = {}
          /\ submitting' = submitting]_vars

\* a reset of an edited form that was given initial values, with the create
\* call of an earlier submit still pending
C14_Witness ==
    /\ formEv.op = "reset" /\ formEv.result = "plain"
    /\ initial = SomeInitial /\ edits > 0 /\ submitting
    /\ workScope = SomeInitial.work_scope.value
    /\ DOMAIN errors = {}

\* C15: fetchPage with no authenticated session changes nothing: no listing
\* request is issued and loading, error, items, cursor and history keep their
\* values.
C15_NoSessionNoFetch ==
    [][(listEv'.op = "fetch" /\ session' = Null) =>
          UNCHANGED <<requests, loading, error, items, cursor, history>>]_vars

\* fetchPage called after sign-out, with the page loaded earlier still held
C15_Witness ==
    /\ listEv = LEv("fetch", "direct")
    /\ session = Null /\ items # <<>> /\ requests = <<>> /\ ~loading

\* C16: a successful fetchPage(c, push) replaces items and the forward cursor
\* with those of the response, a missing cursor becoming null, and appends c
\* to history exactly when push is true; with push false history is left as
\* it was.
C16_SuccessReplacesPage ==
    [][listEv'.op = "ok" =>
          \E i \in DOMAIN requests :
              LET c == requests[i].cursor
                  res == listImpactClaims(requests[i].session, c)
              IN /\ requests' = RemoveAt(requests, i)
                 /\ items' = res.items
                 /\ cursor' = (IF res.cursor = Missing THEN Null ELSE res.cursor)
                 /\ cursor' # Missing
                 /\ requests[i].push => history' = history \o <<c>>
                 /\ ~requests[i].push => history' = history]_vars

\* the last page loaded by next() from a repository that leaves the cursor
\* out of its last response
C16_Witness ==
    /\ listEv = LEv("ok", "next")
    /\ session = "did:bob"
    /\ items = PageItems("did:bob", "c2")
    /\ cursor = Null
    /\ history = <<Null, "c1", "c2">>

\* the List Controller's state: idle before anything was fetched, loading
\* while the flag is up, errored with a message on display, else loaded
ListState ==
    IF loading THEN "loading"
    ELSE IF error # Null THEN "errored"
    ELSE IF history = <<>> /\ items = <<>> THEN "idle"
    ELSE "loaded"

ListTransitions ==
    { <<"idle", "loading">>, <<"loading", "loaded">>, <<"loading", "errored">>,
      <<"loaded", "loading">>, <<"errored", "loading">> }

FetchStarts == Len(requests') > Len(requests)
FetchCompletes == Len(requests') < Len(requests)

\* C17: the List Controller moves idle -> loading -> {loaded, errored} ->
\* loading and in no other way: a fetch starts only with the session ready
\* and present, every fetch start clears the error, every fetch completion
\* clears loading, and errored is entered only from loading, by a failed
\* fetch.
C17_ListStateMachine ==
    [][/\ ListState' # ListState => <<ListState, ListState'>> \in ListTransitions
       /\ FetchStarts => (isReady' /\ session' # Null /\ loading' /\ error' = Null)
       /\ FetchCompletes => ~loading'
       /\ (ListState # "errored" /\ ListState' = "errored") =>
              (ListState = "loading" /\ listEv'.op = "fail")]_vars

\* C18: when two listing fetches overlap and both succeed, each completion
\* writes items and cursor, so once both have completed items and cursor are
\* those of the response that completed last, whether that request was issued
\* first or second.
C18_LastCompletionWins ==
    [][(race \in {1, 2} /\ race' = race + 2) =>
          LET last == requests[1]
              res == listImpactClaims(last.session, last.cursor)
          IN /\ requests' = <<>>
             /\ items' = res.items
             /\ cursor' = (IF res.cursor = Missing THEN Null ELSE res.cursor)]_vars

\* the fetch issued first completed last: the page shown is the one it asked
\* for, not the one the later fetch asked for
C18_Witness ==
    /\ race = 3 /\ requests = <<>>
    /\ session = "did:bob"
    /\ items = PageItems("did:alice", Null)

\* a field path as a key: its parts joined by dots
DotJoined(path) ==
    IF Len(path) = 2 THEN path[1] \o "." \o path[2] ELSE path[1]

\* C19: after a submit() whose validation fails, errors holds exactly the
\* issues of that validation run, keyed by dot-joined field path, each key's
\* messages without duplicates, and nothing of an earlier submit; after a
\* submit() whose validation succeeds errors is empty.
C19_ErrorsAreThisRun ==
    [][(formEv'.op = "submit" /\ formEv'.result # "ignored") =>
          LET issues == SchemaIssues(Record)
              keyOf(i) == DotJoined(issues[i].path)
          IN /\ (formEv'.result = "invalid") <=> (issues # <<>>)
             /\ DOMAIN errors' = {keyOf(i) : i \in DOMAIN issues}
             /\ \A k \in DOMAIN errors' :
                   /\ {errors'[k][j] : j \in DOMAIN errors'[k]}
                        = {issues[i].message : i \in {n \in DOMAIN issues : keyOf(n) = k}}
                   /\ \A a, b \in DOMAIN errors'[k] :
                          errors'[k][a] = errors'[k][b] => a = b]_vars

\* a second failed submit, after the start date was put right: the earlier
\* "work_start_time" entry is gone, the entry for the first uri row is there
C19_Witness ==
    /\ formEv.op = "submit" /\ formEv.result = "invalid"
    /\ "work_start_time" \in DOMAIN formEv.note
    /\ "work_start_time" \notin DOMAIN errors
    /\ "work_end_time" \in DOMAIN errors

\* C20: when the create call rejects, the rejection reaches the caller of
\* submit() and a failure notification is shown; the success notification is
\* shown only after the create call resolved.
C20_CreateFailureNotified ==
    (formEv.op = "settle") =>
        /\ (formEv.note.create = "rejected") =>
               (formEv.result = "rejected" /\ formEv.note.toasts # <<>>)
        /\ (\E i \in DOMAIN formEv.note.toasts : formEv.note.toasts[i] = ToastSuccess)
               => formEv.note.create = "resolved"

\* the cursor a page of the store is asked for with
CursorOfPage(n) == CHOOSE c \in Cursors : PageNumber(c) = n

\* C21: whenever no listing request is outstanding and a fetch has succeeded,
\* history is non-empty, its bottom entry is null and its top entry is the
\* request cursor of the fetch whose items are on display, so that the page
\* number shown, the length of history, is the page displayed.
C21_HistoryTracksPage ==
    (requests = <<>> /\ items # <<>>) =>
        /\ history # <<>>
        /\ history[1] = Null
        /\ history[Len(history)] = CursorOfPage(items[1].page)
        /\ Len(history) = items[1].page

\* C22: a failed next() leaves the forward cursor and the history stack as
\* they were, and leaves the forward cursor at the cursor the failed request
\* carried, so that the next() that follows asks for the same page with the
\* same cursor.
C22_FailedNextRetries ==
    [][listEv' = LEv("fail", "next") =>
          /\ cursor' = cursor /\ history' = history
          /\ \E i \in DOMAIN requests :
                /\ requests' = RemoveAt(requests, i)
                /\ requests[i].origin = "next"
                /\ cursor' = requests[i].cursor]_vars

\* C23: loading is true in every state in which a listing request is
\* outstanding, however the requests came to overlap.
C23_LoadingWhileOutstanding == requests # <<>> => loading

\* C24: a listing response is applied only for the session that asked for it:
\* a response that arrives after the session has changed or signed out
\* writes neither items, cursor nor history.
C24_StaleResponseDropped ==
    [][\A i \in DOMAIN requests :
          (/\ listEv'.op = "ok"
           /\ requests' = RemoveAt(requests, i)
           /\ requests[i].session # session)
          => UNCHANGED <<items, cursor, history>>]_vars

\* the handle with the blanks around it and then one leading "@" taken off
Cleaned(h) ==
    LET body == Trim(h)
    IN IF body # <<>> /\ body[1] = "@" THEN SubSeq(body, 2, Len(body)) ELSE body

\* C25: submitting the sign-in form calls signIn only when the provider is
\* ready and the handle, trimmed and with one leading "@" removed, is not
\* empty; the call then carries exactly that handle, once; otherwise the
\* submit calls nothing.
C25_SignInGuard ==
    signEv.op = "submit" =>
        IF isReady /\ Cleaned(handle) # <<>>
        THEN signEv.calls = <<Cleaned(handle)>>
        ELSE signEv.calls = <<>>

\* "@@a" submitted with the provider ready: signIn is called with "@a"
C25_Witness ==
    /\ signEv.op = "submit" /\ isReady
    /\ handle = <<"@", "@", "a">>
    /\ signEv.calls = << <<"@", "a">> >>

====
